---- MODULE Spec2Model ----
(***************************************************************************)
(* Model of the content-diffing core of the Wayback comparison tool        *)
(* (src/app.py, src/wayback_diff.py).                                      *)
(*                                                                         *)
(* A text is a sequence of characters, a character a one-character string. *)
(* A content block is a pair <<tag, text>>, tag and text both texts.       *)
(* None is Python's None where a text, a list or a dict is expected.        *)
(***************************************************************************)
EXTENDS Integers, Sequences, FiniteSets, TLC

None == <<"None">>

(***************************************************************************)
(* Characters: the classes the regular expressions of the code tell apart. *)
(***************************************************************************)
LowerLetters ==
    <<"a","b","c","d","e","f","g","h","i","j","k","l","m",
      "n","o","p","q","r","s","t","u","v","w","x","y","z">>

UpperLetters ==
    <<"A","B","C","D","E","F","G","H","I","J","K","L","M",
      "N","O","P","Q","R","S","T","U","V","W","X","Y","Z">>

Range(s) == {s[i] : i \in DOMAIN s}

LowerSet == Range(LowerLetters)

UpperSet == Range(UpperLetters)

DigitSet == {"0","1","2","3","4","5","6","7","8","9"}

\* An uppercase letter that has no lowercase form: U+03D2, which str.lower()
\* returns as it is and \w matches
UncasedUpperSet == {"ϒ"}

\* \s of the re module, restricted to the whitespace the model's texts use
SpaceSet == {" ", "\t", "\n"}

\* \d
IsDigit(c) == c \in DigitSet

IsLetter(c) == c \in LowerSet \cup UpperSet \cup UncasedUpperSet

\* \w : letters, digits and the underscore
IsWord(c) == IsLetter(c) \/ IsDigit(c) \/ c = "_"

\* \s
IsSpace(c) == c \in SpaceSet

\* \W
IsNonWord(c) == ~IsWord(c)

LowerMap ==
    [c \in UpperSet |-> LowerLetters[CHOOSE i \in 1..26 : UpperLetters[i] = c]]

UpperMap ==
    [c \in LowerSet |-> UpperLetters[CHOOSE i \in 1..26 : LowerLetters[i] = c]]

\* str.lower(), character by character
LowerChar(c) == IF c \in UpperSet THEN LowerMap[c] ELSE c

\* str.upper(), character by character
UpperChar(c) == IF c \in LowerSet THEN UpperMap[c] ELSE c

\* A function with domain 1..n, held as an explicit tuple
AsTuple(f) == f \o <<>>

lower(text) == AsTuple([i \in 1..Len(text) |-> LowerChar(text[i])])

upper(text) == AsTuple([i \in 1..Len(text) |-> UpperChar(text[i])])

(***************************************************************************)
(* normalize_text (src/app.py 86-102)                                      *)
(***************************************************************************)
\* re.sub(r'[^\w\s]', '', text)
RemovePunctuation(text) == SelectSeq(text, LAMBDA c : IsWord(c) \/ IsSpace(c))

\* re.sub(r'\s+', '', text)
RemoveWhitespace(text) == SelectSeq(text, LAMBDA c : ~IsSpace(c))

\* normalize_text without the conversion at 94
normalize_textNoLower(text) ==
    IF text = None \/ text = <<>> THEN <<>>
    ELSE RemoveWhitespace(RemovePunctuation(text))

normalize_text(text) ==
    IF text = None \/ text = <<>> THEN <<>>
    ELSE RemoveWhitespace(RemovePunctuation(lower(text)))

(***************************************************************************)
(* difflib.SequenceMatcher(None, a, b).ratio(), as called at src/app.py    *)
(* 180.  Positions are Python's: a[i] of the code is a[i+1] here, ranges   *)
(* are half open.                                                          *)
(***************************************************************************)
Max(S) == CHOOSE x \in S : \A y \in S : y <= x

Min(S) == CHOOSE x \in S : \A y \in S : x <= y

\* Program constants of difflib's automatic junk heuristic (__chain_b)
AutoJunkMinLen == 200

Count(b, c) == Cardinality({j \in 1..Len(b) : b[j] = c})

\* __chain_b: the elements of b purged from b2j as "popular"
Popular(b) ==
    IF Len(b) >= AutoJunkMinLen
    THEN {c \in Range(b) : Count(b, c) > (Len(b) \div 100) + 1}
    ELSE {}

\* a[i] matches b[j] and b[j] is a key of b2j (not purged as popular)
Cell(a, b, pop, i, j) == a[i + 1] = b[j + 1] /\ b[j + 1] \notin pop

Least(x, y) == IF x < y THEN x ELSE y

\* the number of consecutive matching cells from <<i, j>> on, at most lim
RunUpTo(a, b, pop, i, j, lim) ==
    CHOOSE d \in 0..lim :
       /\ d = lim \/ ~Cell(a, b, pop, i + d, j + d)
       /\ \A e \in 0..(d - 1) : Cell(a, b, pop, i + e, j + e)

\* j2len: the length of the run of matching cells that starts at <<i, j>> and
\* stays inside a[.. ahi) and b[.. bhi)
RunLen(a, b, pop, i, j, ahi, bhi) == RunUpTo(a, b, pop, i, j, Least(ahi - i, bhi - j))

\* the cells where a run of matching cells starts
RunStarts(a, b, pop, alo, ahi, blo, bhi) ==
    {p \in (alo..(ahi - 1)) \X (blo..(bhi - 1)) :
        /\ Cell(a, b, pop, p[1], p[2])
        /\ ~(p[1] > alo /\ p[2] > blo /\ Cell(a, b, pop, p[1] - 1, p[2] - 1))}

\* the runs of matching cells, as <<i, j, size>>
Runs(a, b, pop, alo, ahi, blo, bhi) ==
    {<<p[1], p[2], RunLen(a, b, pop, p[1], p[2], ahi, bhi)>> :
        p \in RunStarts(a, b, pop, alo, ahi, blo, bhi)}

RunsOfSize(runs, k) == {r \in runs : r[3] = k}

RunsAtRow(runs, i) == {r \in runs : r[1] = i}

LeastJ(runs) == CHOOSE r \in runs : \A o \in runs : r[2] <= o[2]

LeastI(runs) == LeastJ(RunsAtRow(runs, Min({r[1] : r \in runs})))

FirstLongest(alo, blo, runs) ==
    IF runs = {} THEN <<alo, blo, 0>>
    ELSE LeastI(RunsOfSize(runs, Max({r[3] : r \in runs})))

\* find_longest_match, the main loop over i and over the j of b2j[a[i]] in
\* increasing order: besti, bestj, bestsize are replaced only by a strictly
\* longer run, so the result is the longest run of matching cells and, among
\* the longest, the one with the least i, then the least j.
LongestRun(a, b, pop, alo, ahi, blo, bhi) ==
    FirstLongest(alo, blo, Runs(a, b, pop, alo, ahi, blo, bhi))

\* the number of equal elements right before a[i] and b[j], at most lim
EqualBefore(a, b, i, j, lim) ==
    CHOOSE d \in 0..lim :
       /\ d = lim \/ a[i - d] # b[j - d]
       /\ \A e \in 0..(d - 1) : a[i - e] = b[j - e]

\* the number of equal elements from a[i] and b[j] on, at most lim
EqualFrom(a, b, i, j, lim) ==
    CHOOSE d \in 0..lim :
       /\ d = lim \/ a[i + d + 1] # b[j + d + 1]
       /\ \A e \in 0..(d - 1) : a[i + e + 1] = b[j + e + 1]

GrowLeft(best, d) == <<best[1] - d, best[2] - d, best[3] + d>>

GrowRight(best, d) == <<best[1], best[2], best[3] + d>>

\* the first extension loop: the matching elements right before the block
ExtendLeft(a, b, alo, blo, best) ==
    GrowLeft(best, EqualBefore(a, b, best[1], best[2],
                               Least(best[1] - alo, best[2] - blo)))

\* the second extension loop: the matching elements right after the block
ExtendRight(a, b, ahi, bhi, best) ==
    GrowRight(best, EqualFrom(a, b, best[1] + best[3], best[2] + best[3],
                              Least(ahi - (best[1] + best[3]), bhi - (best[2] + best[3]))))

\* isjunk is None: bjunk is empty, so only the two non-junk extension loops act
find_longest_match(a, b, pop, alo, ahi, blo, bhi) ==
    ExtendRight(a, b, ahi, bhi,
        ExtendLeft(a, b, alo, blo, LongestRun(a, b, pop, alo, ahi, blo, bhi)))

\* get_matching_blocks: the total size of the matching blocks of a[alo..ahi)
\* and b[blo..bhi), x being their longest match
RECURSIVE MatchTotal(_, _, _, _, _, _, _)
RECURSIVE MatchAround(_, _, _, _, _, _, _, _)
MatchAround(a, b, pop, alo, ahi, blo, bhi, x) ==
    IF x[3] = 0 THEN 0
    ELSE x[3]
         + (IF alo < x[1] /\ blo < x[2]
            THEN MatchTotal(a, b, pop, alo, x[1], blo, x[2]) ELSE 0)
         + (IF x[1] + x[3] < ahi /\ x[2] + x[3] < bhi
            THEN MatchTotal(a, b, pop, x[1] + x[3], ahi, x[2] + x[3], bhi) ELSE 0)

MatchTotal(a, b, pop, alo, ahi, blo, bhi) ==
    MatchAround(a, b, pop, alo, ahi, blo, bhi,
                find_longest_match(a, b, pop, alo, ahi, blo, bhi))

\* ratio() as the fraction <<numerator, denominator>>: 2.0 * matches / length,
\* and 1.0 when both sequences are empty
ratio(a, b) ==
    IF Len(a) + Len(b) = 0 THEN <<1, 1>>
    ELSE <<2 * MatchTotal(a, b, Popular(b), 0, Len(a), 0, Len(b)), Len(a) + Len(b)>>

\* comparisons of fractions with positive denominators
FracLess(x, y) == x[1] * y[2] < y[1] * x[2]

(***************************************************************************)
(* The blocks the matcher is run on.                                       *)
(***************************************************************************)
\* a normalized key of length 21, shorter than 30; similar to ShortNew
ShortOldText ==
    <<"r","e","d"," ","f","o","x"," ","r","a","n"," ","f","a","r"," ","o","f","f"," ","n",
      "o","w"," ","."," ","."," ","."," ","."," ","."," ","."," ","."," ","."," ","."," ",
      "."," ","."," ","."," ","."," ","."," ","."," ","."," ","."," ","."," ","."," ",".",
      " ","."," ","."," ","."," ","."," ","."," ","."," ","."," ","."," ","."," ","."," ",
      "(","e","n","d",")">>

ShortOld == <<<<"l","i">>, ShortOldText>>

\* a normalized key of length 24: similarity 0.84 to ShortOld, 9 changed words, 59 characters shorter
ShortNewText ==
    <<"R","e","d","f","o","x"," ","r","a","n","f","a","r"," ","o","f","f","n","o","w",",",
      " ","y","e","s"," ","s","i","r","!">>

ShortNew == <<<<"l","i">>, ShortNewText>>

\* a normalized key of length 36, in 30..50
MidItemText ==
    <<"Q","u","a","r","t","e","r","l","y"," ","r","e","s","u","l","t","s"," ","f","o","r",
      " ","t","h","e"," ","n","o","r","t","h","e","r","n"," ","r","e","g","i","o","n">>

MidItem == <<<<"h","2">>, MidItemText>>

\* Scenario 1 of the specification; a key of length 59
Scenario1Text ==
    <<"H","e","l","l","o"," ","w","o","r","l","d",","," ","t","h","i","s"," ","i","s"," ",
      "a"," ","t","e","s","t"," ","p","a","r","a","g","r","a","p","h"," ","w","i","t","h",
      " ","e","n","o","u","g","h"," ","l","e","n","g","t","h"," ","t","o"," ","p","a","s",
      "s"," ","f","i","l","t","e","r","s",".">>

Scenario1 == <<<<"p">>, Scenario1Text>>

\* the key of Scenario1 under another casing, punctuation, spacing and tag
Scenario5Text ==
    <<"H","E","L","L","O"," "," ","W","O","R","L","D",":"," ","t","h","i","s"," ","i","s",
      " ","a"," ","T","e","s","t","-","P","a","r","a","g","r","a","p","h",","," ","w","i",
      "t","h"," ","e","n","o","u","g","h"," ","l","e","n","g","t","h"," ","t","o"," ","p",
      "a","s","s"," ","f","i","l","t","e","r","s","!">>

Scenario5 == <<<<"h","3">>, Scenario5Text>>

\* 161 characters, longer than 150; similar to LongNew
LongOldText ==
    <<"T","h","e"," ","c","o","u","n","c","i","l"," ","r","e","j","e","c","t","e","d"," ",
      "t","h","e"," ","o","l","d"," ","b","u","d","g","e","t"," ","f","o","r"," ","t","h",
      "e"," ","p","u","b","l","i","c"," ","l","i","b","r","a","r","y"," ","a","n","d"," ",
      "t","h","e"," ","r","i","v","e","r","s","i","d","e"," ","p","a","r","k"," ","o","n",
      " ","F","r","i","d","a","y","."," ","*"," ","*"," ","*"," ","*"," ","*"," ","*"," ",
      "*"," ","*"," ","*"," ","*"," ","*"," ","*"," ","*"," ","*"," ","*"," ","*"," ","*",
      " ","*"," ","*"," ","*"," ","*"," ","*"," ","*"," ","*"," ","*"," ","*"," ","*"," ",
      "*"," ","*"," ","(","a","r","c","h","i","v","e","d",")">>

LongOld == <<<<"p">>, LongOldText>>

\* similarity 0.8125 to LongOld, 6 changed words, 69 characters shorter
LongNewText ==
    <<"T","h","e"," ","c","o","u","n","c","i","l"," ","a","p","p","r","o","v","e","d"," ",
      "t","h","e"," ","n","e","w"," ","b","u","d","g","e","t"," ","f","o","r"," ","t","h",
      "e"," ","p","u","b","l","i","c"," ","l","i","b","r","a","r","y"," ","a","n","d"," ",
      "t","h","e"," ","r","i","v","e","r","s","i","d","e"," ","p","a","r","k"," ","o","n",
      " ","M","o","n","d","a","y",".">>

LongNew == <<<<"t","d">>, LongNewText>>

\* Scenario 2 of the specification
Scenario2Text ==
    <<"A"," ","b","r","a","n","d"," ","n","e","w"," ","s","u","b","s","t","a","n","t","i",
      "a","l"," ","p","a","r","a","g","r","a","p","h"," ","o","f"," ","s","i","g","n","i",
      "f","i","c","a","n","t"," ","l","e","n","g","t","h"," ","e","x","c","e","e","d","i",
      "n","g"," ","f","i","f","t","y"," ","n","o","r","m","a","l","i","z","e","d"," ","c",
      "h","a","r","a","c","t","e","r","s"," ","f","o","r"," ","s","u","r","e",".">>

Scenario2 == <<<<"p">>, Scenario2Text>>

\* Scenario 3 of the specification, the old side
Scenario3OldText ==
    <<"T","h","e"," ","q","u","i","c","k"," ","b","r","o","w","n"," ","f","o","x"," ","j",
      "u","m","p","s"," ","o","v","e","r"," ","t","h","e"," ","l","a","z","y"," ","d","o",
      "g"," ","n","e","a","r"," ","t","h","e"," ","r","i","v","e","r"," ","b","a","n","k",
      " ","t","o","d","a","y",".">>

Scenario3Old == <<<<"p">>, Scenario3OldText>>

\* Scenario 3 of the specification, the new side
Scenario3NewText ==
    <<"T","h","e"," ","q","u","i","c","k"," ","b","r","o","w","n"," ","f","o","x"," ","j",
      "u","m","p","s"," ","o","v","e","r"," ","t","h","e"," ","l","a","z","y"," ","d","o",
      "g"," ","n","e","a","r"," ","t","h","e"," ","r","i","v","e","r","b","a","n","k"," ",
      "y","e","s","t","e","r","d","a","y"," ","a","f","t","e","r","n","o","o","n",".">>

Scenario3New == <<<<"p">>, Scenario3NewText>>

\* n times a space and an asterisk
Stars(n) == AsTuple([i \in 1..(2 * n) |-> IF i % 2 = 1 THEN " " ELSE "*"])

\* a text with a key of 40 characters
BaseText ==
    <<"s","e","v","e","n"," ","g","r","e","e","n"," ","b","o","a","t","s"," ","c","r","o","s",
      "s"," ","q","u","i","e","t"," ","r","i","v","e","r"," ","a","f","t","e","r"," ","s","t",
      "o","r","m">>

Base == <<<<"p">>, BaseText>>

\* similarity to Base exactly 0.9 (72/80); 8 words and 52 characters differ
Sim90Text ==
    <<"s","z","v","e","n"," ","g","r","e","e","n"," ","b","z","a","t","s"," ","c","r","o","s",
      "s"," ","q","z","i","e","t"," ","r","i","v","e","r"," ","a","z","t","e","r"," ","s","t",
      "o","r","m">> \o Stars(26)

Sim90 == <<<<"p">>, Sim90Text>>

\* similarity to Base 0.825 (66/80); 14 words and 52 characters differ
Sim82Text ==
    <<"s","z","v","e","n"," ","g","z","e","e","n"," ","b","z","a","t","s"," ","c","z","o","s",
      "s"," ","q","z","i","e","t"," ","r","z","v","e","r"," ","a","z","t","e","r"," ","s","t",
      "o","r","m">> \o Stars(26)

Sim82 == <<<<"l","i">>, Sim82Text>>

\* similarity to Base exactly 0.75 (60/80); 16 words and 52 characters differ
Sim75Text ==
    <<"s","z","v","z","n"," ","g","z","e","z","n"," ","b","z","a","t","s"," ","c","z","o","s",
      "s"," ","q","z","i","e","t"," ","r","z","v","e","r"," ","a","z","t","e","r"," ","s","z",
      "o","r","m">> \o Stars(26)

Sim75 == <<<<"p">>, Sim75Text>>

\* similarity to Base 0.875 (70/80); 4 words and 52 characters differ
FewWordsText ==
    <<"s","z","z","z","n"," ","g","z","z","e","n"," ","b","o","a","t","s"," ","c","r","o","s",
      "s"," ","q","u","i","e","t"," ","r","i","v","e","r"," ","a","f","t","e","r"," ","s","t",
      "o","r","m">> \o Stars(26)

FewWords == <<<<"p">>, FewWordsText>>

\* similarity to Base 0.825 (66/80); 14 words and exactly 50 characters differ
SmallDiffText ==
    <<"s","z","v","e","n"," ","g","z","e","e","n"," ","b","z","a","t","s"," ","c","z","o","s",
      "s"," ","q","z","i","e","t"," ","r","z","v","e","r"," ","a","z","t","e","r"," ","s","t",
      "o","r","m">> \o Stars(25)

SmallDiff == <<<<"p">>, SmallDiffText>>

\* similarity to Base 80/101 (0.79), key lengths 61 and 40 (ratio 0.66); 5 words and
\* 52 characters differ
LongerText ==
    <<"s","e","v","e","n"," ","g","r","e","e","n"," ","b","o","a","t","s"," ","c","r","o","s",
      "s"," ","q","u","i","e","t"," ","r","i","v","e","r"," ","a","f","t","e","r"," ","s","t",
      "o","r","m"," ","a","n","d"," ","t","h","e","n"," ","h","e","a","v","y"," ","r","a","i",
      "n","s"," ","f","e","l","l">> \o Stars(13)

Longer == <<<<"p">>, LongerText>>

\* re.findall(r'\b\w+\b', text): the maximal runs of word characters
WordStarts(text) ==
    {i \in 1..Len(text) : IsWord(text[i]) /\ (i = 1 \/ ~IsWord(text[i - 1]))}

WordEnd(text, i) ==
    CHOOSE e \in i..Len(text) :
       /\ e = Len(text) \/ ~IsWord(text[e + 1])
       /\ \A k \in i..e : IsWord(text[k])

Words(text) == {SubSeq(text, i, WordEnd(text, i)) : i \in WordStarts(text)}

AllBlocks ==
    {ShortOld, ShortNew, MidItem, Scenario1, Scenario5, LongOld, LongNew,
     Scenario2, Scenario3Old, Scenario3New,
     Base, Sim90, Sim82, Sim75, FewWords, SmallDiff, Longer}

\* normalize_text, ratio and the word sets are pure: their values on the texts
\* of the blocks above are tabulated once, and computed for any other argument.  (f @@ <<>>
\* is f, held as an explicit table.)

NormalizedTable == [t \in {b[2] : b \in AllBlocks} |-> normalize_text(t)] @@ <<>>

Normalized(text) ==
    IF text \in DOMAIN NormalizedTable THEN NormalizedTable[text] ELSE normalize_text(text)

AllKeys == {NormalizedTable[t] : t \in DOMAIN NormalizedTable}

RatioTable == [p \in AllKeys \X AllKeys |-> ratio(p[1], p[2])] @@ <<>>

WordsTable == [t \in {b[2] : b \in AllBlocks} |-> Words(lower(t))] @@ <<>>

\* set(re.findall(r'\b\w+\b', text.lower()))
LowerWords(text) ==
    IF text \in DOMAIN WordsTable THEN WordsTable[text] ELSE Words(lower(text))

\* difflib.SequenceMatcher(None, a, b).ratio()
Similarity(a, b) ==
    IF <<a, b>> \in DOMAIN RatioTable THEN RatioTable[<<a, b>>] ELSE ratio(a, b)

(***************************************************************************)
(* find_significant_changes (src/app.py 104-208), the set-based matcher    *)
(***************************************************************************)
\* len(ultra_normalized) < 30
MinKeyLen == 30

\* len(normalized_text) > 50
SignificantKeyLen == 50

\* len(text) > 150, text[:150]
ExcerptLen == 150

\* word_changes >= 5
MinWordChanges == 5

\* length_diff > 50
MinLengthDiff == 50

\* length_ratio < 0.75, similarity > 0.75
LowSimilarity == <<3, 4>>

\* best_similarity < 0.9
HighSimilarity == <<9, 10>>

StrongOpen == <<"<","s","t","r","o","n","g",">">>

StrongClose == <<"<","/","s","t","r","o","n","g",">",":"," ">>

Ellipsis == <<".",".",".">>

Tag(item) == item[1]

Text(item) == item[2]

\* the excerpt cut at 150 characters without the ellipsis
ExcerptNoEllipsis(item) ==
    IF Len(Text(item)) > ExcerptLen
    THEN StrongOpen \o upper(Tag(item)) \o StrongClose \o SubSeq(Text(item), 1, ExcerptLen)
    ELSE StrongOpen \o upper(Tag(item)) \o StrongClose \o Text(item)

\* f"<strong>{tag.upper()}</strong>: {text[:150]}..." if len(text) > 150
\* else f"<strong>{tag.upper()}</strong>: {text}"
Excerpt(item) ==
    IF Len(Text(item)) > ExcerptLen
    THEN StrongOpen \o upper(Tag(item)) \o StrongClose
         \o SubSeq(Text(item), 1, ExcerptLen) \o Ellipsis
    ELSE StrongOpen \o upper(Tag(item)) \o StrongClose \o Text(item)

\* A dict of the code: its keys in insertion order and the list under each key
EmptyMap == [keys |-> <<>>, items |-> <<>>]

KeyIndex(map, key) == {i \in 1..Len(map.keys) : map.keys[i] = key}

HasKey(map, key) == KeyIndex(map, key) # {}

Lookup(map, key) == map.items[CHOOSE i \in KeyIndex(map, key) : TRUE]

\* one iteration of the loops at 117-125 and 128-136
\* MapInsertAt without the filter at 120 and 131: short keys are stored too
MapInsertAtUnfiltered(map, ultra_normalized, item) ==
    IF ~HasKey(map, ultra_normalized)
    THEN [keys |-> Append(map.keys, ultra_normalized),
          items |-> Append(map.items, <<item>>)]
    ELSE [map EXCEPT
            !.items[CHOOSE i \in KeyIndex(map, ultra_normalized) : TRUE] =
                Append(@, item)]

MapInsertAt(map, ultra_normalized, item) ==
    IF Len(ultra_normalized) < MinKeyLen THEN map
    ELSE IF ~HasKey(map, ultra_normalized)
         THEN [keys |-> Append(map.keys, ultra_normalized),
               items |-> Append(map.items, <<item>>)]
         ELSE [map EXCEPT
                 !.items[CHOOSE i \in KeyIndex(map, ultra_normalized) : TRUE] =
                     Append(@, item)]

MapInsert(map, item) == MapInsertAt(map, Normalized(Text(item)), item)

RECURSIVE BuildMapFrom(_, _, _)
BuildMapFrom(items, n, map) ==
    IF n > Len(items) THEN map
    ELSE BuildMapFrom(items, n + 1, MapInsert(map, items[n]))

\* old_normalized_map / new_normalized_map
normalized_map(items) == BuildMapFrom(items, 1, EmptyMap)

\* AddedForKey without the test at 141: a key of the old side is added too
AddedForKeyUnchecked(old_map, new_map, i) ==
    IF Len(new_map.keys[i]) > SignificantKeyLen THEN new_map.items[i] ELSE <<>>

\* AddedForKey without the test at 143: a key of any stored length is added
AddedForKeyAnyLength(old_map, new_map, i) ==
    IF ~HasKey(old_map, new_map.keys[i]) THEN new_map.items[i] ELSE <<>>

\* one iteration of the loop at 139-145: the blocks the i-th new key adds
AddedForKey(old_map, new_map, i) ==
    IF ~HasKey(old_map, new_map.keys[i]) /\ Len(new_map.keys[i]) > SignificantKeyLen
    THEN new_map.items[i]
    ELSE <<>>

\* the loop at 139-145 from key i on: the new-side blocks that become added
\* entries
RECURSIVE AddedFrom(_, _, _)
AddedFrom(old_map, new_map, i) ==
    IF i > Len(new_map.keys) THEN <<>>
    ELSE AddedForKey(old_map, new_map, i) \o AddedFrom(old_map, new_map, i + 1)

AddedItems(old_map, new_map) == AddedFrom(old_map, new_map, 1)

\* RemovedForKey without the test at 150: a key of the new side is removed too
RemovedForKeyUnchecked(old_map, new_map, i) ==
    IF Len(old_map.keys[i]) > SignificantKeyLen THEN old_map.items[i] ELSE <<>>

\* RemovedForKey without the test at 152: a key of any stored length is removed
RemovedForKeyAnyLength(old_map, new_map, i) ==
    IF ~HasKey(new_map, old_map.keys[i]) THEN old_map.items[i] ELSE <<>>

\* one iteration of the loop at 148-154: the blocks the i-th old key removes
RemovedForKey(old_map, new_map, i) ==
    IF ~HasKey(new_map, old_map.keys[i]) /\ Len(old_map.keys[i]) > SignificantKeyLen
    THEN old_map.items[i]
    ELSE <<>>

\* the loop at 148-154 from key i on: the old-side blocks that become removed
\* entries
RECURSIVE RemovedFrom(_, _, _)
RemovedFrom(old_map, new_map, i) ==
    IF i > Len(old_map.keys) THEN <<>>
    ELSE RemovedForKey(old_map, new_map, i) \o RemovedFrom(old_map, new_map, i + 1)

RemovedItems(old_map, new_map) == RemovedFrom(old_map, new_map, 1)

\* min(len(new_norm), len(old_norm)) / max(len(new_norm), len(old_norm))
LengthRatioRaises(new_norm, old_norm) == Len(new_norm) = 0 /\ Len(old_norm) = 0

length_ratio(new_norm, old_norm) ==
    IF Len(new_norm) < Len(old_norm) THEN <<Len(new_norm), Len(old_norm)>>
    ELSE <<Len(old_norm), Len(new_norm)>>

\* the first candidate above 0.75 is kept, a later and better one is not taken
BetterMatchFirstFound(best, old_norm, similarity) ==
    IF best[1] = None /\ FracLess(LowSimilarity, similarity)
    THEN <<old_norm, similarity>>
    ELSE best

\* one iteration of the loop at 173-183; best is <<best_old_norm, best_similarity>>
\* the test at 181 and the assignments at 182-183
BetterMatch(best, old_norm, similarity) ==
    IF FracLess(best[2], similarity) /\ FracLess(LowSimilarity, similarity)
    THEN <<old_norm, similarity>>
    ELSE best

BestStep(best, new_norm, old_norm) ==
    IF FracLess(length_ratio(new_norm, old_norm), LowSimilarity) THEN best
    ELSE BetterMatch(best, old_norm, Similarity(new_norm, old_norm))

RECURSIVE BestFrom(_, _, _, _)
BestFrom(old_order, n, new_norm, best) ==
    IF n > Len(old_order) THEN best
    ELSE BestFrom(old_order, n + 1, new_norm, BestStep(best, new_norm, old_order[n]))

\* the loop at 170-183 over old_normalized_texts, a set iterated in old_order
BestMatch(old_order, new_norm) == BestFrom(old_order, 1, new_norm, <<None, <<0, 1>>>>)

Abs(x) == IF x < 0 THEN -x ELSE x

\* word_changes (191-199)
ChangedWords(new_words, old_words) ==
    Cardinality(new_words \ old_words) + Cardinality(old_words \ new_words)

word_changes(new_text, old_text) ==
    ChangedWords(LowerWords(new_text), LowerWords(old_text))

\* length_diff (200)
length_diff(new_text, old_text) == Abs(Len(new_text) - Len(old_text))

\* the test at 202 without its length condition
SignificantModificationWordsOnly(new_item, old_item) ==
    word_changes(Text(new_item), Text(old_item)) >= MinWordChanges

\* the test at 202 with "or" in the place of "and"
SignificantModificationEitherTest(new_item, old_item) ==
    \/ word_changes(Text(new_item), Text(old_item)) >= MinWordChanges
    \/ length_diff(Text(new_item), Text(old_item)) > MinLengthDiff

\* the test at 202
SignificantModification(new_item, old_item) ==
    /\ word_changes(Text(new_item), Text(old_item)) >= MinWordChanges
    /\ length_diff(Text(new_item), Text(old_item)) > MinLengthDiff

\* the loops at 188-206 for one new key and its accepted best old key, from
\* the i-th new block and the j-th old block on
RECURSIVE PairsFrom(_, _, _, _)
PairsFrom(new_list, old_list, i, j) ==
    IF i > Len(new_list) THEN <<>>
    ELSE IF j > Len(old_list) THEN PairsFrom(new_list, old_list, i + 1, 1)
    ELSE (IF SignificantModification(new_list[i], old_list[j])
          THEN <<[old |-> old_list[j], new |-> new_list[i]]>> ELSE <<>>)
         \o PairsFrom(new_list, old_list, i, j + 1)

PairsOf(new_list, old_list) == PairsFrom(new_list, old_list, 1, 1)

\* lines 185-206 without the test best_similarity < 0.9
ModifiedWithNoUpperBound(old_map, new_map, new_norm, best) ==
    IF /\ best[1] # None
       /\ best[1] # <<>>
       /\ FracLess(LowSimilarity, best[2])
    THEN PairsOf(Lookup(new_map, new_norm), Lookup(old_map, best[1]))
    ELSE <<>>

\* the body of the loop at 165-206 for one new_norm
\* lines 185-206: best is <<best_old_norm, best_similarity>>
ModifiedWith(old_map, new_map, new_norm, best) ==
    IF /\ best[1] # None
       /\ best[1] # <<>>
       /\ FracLess(LowSimilarity, best[2])
       /\ FracLess(best[2], HighSimilarity)
    THEN PairsOf(Lookup(new_map, new_norm), Lookup(old_map, best[1]))
    ELSE <<>>

ModifiedFor(old_map, new_map, old_order, new_norm) ==
    IF HasKey(old_map, new_norm) THEN <<>>
    ELSE ModifiedWith(old_map, new_map, new_norm, BestMatch(old_order, new_norm))

\* the orders n elements can be iterated in: the permutations of 1..n
IterationOrders(n) == Permutations(1..n)

\* the orders a set of keys can be iterated in
Orders(keys) == {AsTuple([i \in 1..Len(keys) |-> keys[o[i]]]) : o \in IterationOrders(Len(keys))}

\* What the body of the loop at 165-206 appends for the i-th key of new_map.
\* old_normalized_texts is a set: old_order is the order it is iterated in,
\* which the hash seed of the process decides.
ModifiedChunks(old_map, new_map, old_order) ==
    AsTuple([i \in 1..Len(new_map.keys) |->
               ModifiedFor(old_map, new_map, old_order, new_map.keys[i])])

\* the loop at 165-206: new_normalized_texts is a set, iterated in new_order (a
\* permutation of the positions of the keys)
RECURSIVE ModifiedFrom(_, _, _)
ModifiedFrom(chunks, new_order, n) ==
    IF n > Len(new_order) THEN <<>>
    ELSE chunks[new_order[n]] \o ModifiedFrom(chunks, new_order, n + 1)

ModifiedItems(chunks, new_order) == ModifiedFrom(chunks, new_order, 1)

\* a search that takes the best of the old keys and raises when there is none
MatcherRaisesOnEmptyOld(old_map, new_map) ==
    Len(new_map.keys) > 0 /\ Len(old_map.keys) = 0

\* the division at 175 raises ZeroDivisionError when both keys are empty
MatcherRaises(old_map, new_map) ==
    \E i \in 1..Len(new_map.keys), j \in 1..Len(old_map.keys) :
        /\ ~HasKey(old_map, new_map.keys[i])
        /\ LengthRatioRaises(new_map.keys[i], old_map.keys[j])

\* the modified entries for one iteration order of the old keys and each
\* iteration order of the n new keys
ModifiedInOrders(chunks, n) ==
    {ModifiedItems(chunks, new_order) : new_order \in IterationOrders(n)}

\* the modified entries the loop at 165-206 can produce: one list for each
\* pair of iteration orders of the two key sets
ModifiedOutcomes(old_map, new_map) ==
    UNION {ModifiedInOrders(ModifiedChunks(old_map, new_map, old_order),
                            Len(new_map.keys)) :
              old_order \in Orders(old_map.keys)}

\* the new sides and the old sides of a list of modified entries
NewSides(modified) == {modified[i].new : i \in DOMAIN modified}

OldSides(modified) == {modified[i].old : i \in DOMAIN modified}

\* exclusive categories: a block of a modified entry is taken out of added
\* and of removed
SourcesWithExclusive(added, removed, outcomes) ==
    {[added |-> SelectSeq(added, LAMBDA b : b \notin NewSides(m)),
      removed |-> SelectSeq(removed, LAMBDA b : b \notin OldSides(m)),
      modified |-> m] : m \in outcomes}

SourcesWith(added, removed, outcomes) ==
    {[added |-> added, removed |-> removed, modified |-> m] : m \in outcomes}

SourcesOf(old_map, new_map) ==
    SourcesWith(AddedItems(old_map, new_map), RemovedItems(old_map, new_map),
                ModifiedOutcomes(old_map, new_map))

\* The blocks behind the entries of each report the call can return
MatchSources(old_items, new_items) ==
    SourcesOf(normalized_map(old_items), normalized_map(new_items))

\* whether the call raises
MatchRaises(old_items, new_items) ==
    MatcherRaises(normalized_map(old_items), normalized_map(new_items))

\* results: the excerpts of the blocks
Render(src) ==
    [added |-> [i \in 1..Len(src.added) |-> Excerpt(src.added[i])],
     removed |-> [i \in 1..Len(src.removed) |-> Excerpt(src.removed[i])],
     modified |-> [i \in 1..Len(src.modified) |->
                     [old |-> Excerpt(src.modified[i].old),
                      new |-> Excerpt(src.modified[i].new)]]]

\* The pools the inputs of a call are drawn from
\* the boilerplate filter, the significance threshold, equal keys
FilterPool == {ShortOld, ShortNew, MidItem, Scenario1}

\* a modification, an excerpt cut at 150 characters
ModifyPool == {LongOld, LongNew, Scenario1, Scenario5}

\* the scenarios of the specification
ScenarioPool == {Scenario2, Scenario3Old, Scenario3New, MidItem}

\* similarities at and between the bounds 0.75 and 0.9
BoundaryPool == {Base, Sim90, Sim82, Sim75}

\* accepted keys and the tests on the words and the lengths of the texts; a
\* key too long for the pre-filter on the lengths
VerifyPool == {Base, Sim82, FewWords, SmallDiff, Longer}

MatchPools == {FilterPool, ModifyPool, ScenarioPool, BoundaryPool, VerifyPool}

\* The most blocks on one side of a call
MaxItems == 2

ItemLists(pool) == UNION {[1..n -> pool] : n \in 0..MaxItems}

(***************************************************************************)
(* extract_meaningful_text (src/app.py 57-84)                              *)
(*                                                                         *)
(* A document is None or a string, held as the tree that                   *)
(* BeautifulSoup(html_content, 'html.parser') builds of it: its nodes in   *)
(* document order, each an element or a piece of text, with the position   *)
(* of its parent (0 at the top).  A string can also hold markup that the   *)
(* parser rejects, such as the marked section of '<div><![zz]></div>':     *)
(* BeautifulSoup then raises ParserRejectedMarkup and builds no tree; such *)
(* a string is held with the nodes of the markup around the rejected part. *)
(***************************************************************************)
\* html_content is None
NoneDocument == [is_none |-> TRUE, rejected |-> FALSE, nodes |-> <<>>]

\* html_content is a string with these nodes
Html(nodes) == [is_none |-> FALSE, rejected |-> FALSE, nodes |-> nodes]

\* html_content is a string with these nodes and a piece the parser rejects
RejectedHtml(nodes) == [is_none |-> FALSE, rejected |-> TRUE, nodes |-> nodes]

IsNone(content) == content.is_none

\* what a call that raises gives in place of a value
ParserRejectedMarkup == [raises |-> "ParserRejectedMarkup"]

\* BeautifulSoup(html_content, 'html.parser') at line 66 raises
ParserRejects(html_content) == ~IsNone(html_content) /\ html_content.rejected

Element(name, parent) ==
    [kind |-> "element", name |-> name, text |-> <<>>, parent |-> parent]

TextNode(text, parent) ==
    [kind |-> "text", name |-> <<>>, text |-> text, parent |-> parent]

\* ['script', 'style', 'meta', 'link', 'svg', 'path', 'noscript']
StripTags ==
    {<<"s","c","r","i","p","t">>, <<"s","t","y","l","e">>, <<"m","e","t","a">>,
     <<"l","i","n","k">>, <<"s","v","g">>, <<"p","a","t","h">>,
     <<"n","o","s","c","r","i","p","t">>}

\* significant_tags
SignificantTags ==
    <<<<"p">>, <<"h","1">>, <<"h","2">>, <<"h","3">>, <<"h","4">>, <<"h","5">>,
      <<"h","6">>, <<"l","i">>, <<"t","h">>, <<"t","d">>,
      <<"f","i","g","c","a","p","t","i","o","n">>,
      <<"b","l","o","c","k","q","u","o","t","e">>>>

\* len(text) > 10
MinTextLen == 10

\* node i and the nodes above it
RECURSIVE SelfAndAncestors(_, _)
SelfAndAncestors(doc, i) ==
    IF i = 0 THEN {} ELSE {i} \cup SelfAndAncestors(doc, doc[i].parent)

\* the tree without the loop at 69-70: nothing is decomposed
RemainingAll(doc) == DOMAIN doc

\* tag.decompose() for every tag of soup([...]): the nodes left in the tree
Remaining(doc) ==
    {i \in DOMAIN doc :
        \A a \in SelfAndAncestors(doc, i) :
            ~(doc[a].kind = "element" /\ doc[a].name \in StripTags)}

\* tag.get_text(): the pieces of text below node i, from node j on, joined
RECURSIVE TextFrom(_, _, _, _)
TextFrom(doc, remaining, i, j) ==
    IF j > Len(doc) THEN <<>>
    ELSE (IF /\ j \in remaining
             /\ doc[j].kind = "text"
             /\ i \in SelfAndAncestors(doc, j)
          THEN doc[j].text ELSE <<>>)
         \o TextFrom(doc, remaining, i, j + 1)

get_text(doc, remaining, i) == TextFrom(doc, remaining, i, i)

FirstNonSpace(text) ==
    CHOOSE k \in DOMAIN text :
       ~IsSpace(text[k]) /\ \A j \in 1..(k - 1) : IsSpace(text[j])

LastNonSpace(text) ==
    CHOOSE k \in DOMAIN text :
       ~IsSpace(text[k]) /\ \A j \in (k + 1)..Len(text) : IsSpace(text[j])

\* str.strip()
strip(text) ==
    IF \A k \in DOMAIN text : IsSpace(text[k]) THEN <<>>
    ELSE SubSeq(text, FirstNonSpace(text), LastNonSpace(text))

\* re.match(r'^[\d\W]+$', text) on a stripped text
OnlyDigitsAndNonWord(text) ==
    /\ Len(text) >= 1
    /\ \A k \in DOMAIN text : IsDigit(text[k]) \/ IsNonWord(text[k])

\* the test at 81
Meaningful(text) == Len(text) > MinTextLen /\ ~OnlyDigitsAndNonWord(text)

\* lines 79-82 for one tag found
ItemOf(tag_name, text) ==
    IF Meaningful(text) THEN <<<<tag_name, text>>>> ELSE <<>>

\* the loop at 77-82 over soup.find_all(tag_name), in document order, from
\* node i on
RECURSIVE ItemsOfTag(_, _, _, _)
ItemsOfTag(doc, remaining, tag_name, i) ==
    IF i > Len(doc) THEN <<>>
    ELSE (IF i \in remaining /\ doc[i].kind = "element" /\ doc[i].name = tag_name
          THEN ItemOf(tag_name, strip(get_text(doc, remaining, i)))
          ELSE <<>>)
         \o ItemsOfTag(doc, remaining, tag_name, i + 1)

\* the loop at 76-82 over significant_tags, from the t-th tag on
RECURSIVE ItemsOfTags(_, _, _)
ItemsOfTags(doc, remaining, t) ==
    IF t > Len(SignificantTags) THEN <<>>
    ELSE ItemsOfTag(doc, remaining, SignificantTags[t], 1)
         \o ItemsOfTags(doc, remaining, t + 1)

extract_meaningful_text(html_content) ==
    IF IsNone(html_content) THEN <<>>
    ELSE IF ParserRejects(html_content) THEN ParserRejectedMarkup
    ELSE ItemsOfTags(html_content.nodes, Remaining(html_content.nodes), 1)

(***************************************************************************)
(* compare_pages (src/app.py 210-280)                                      *)
(***************************************************************************)
\* the test at 215
FetchFailed(old_doc, new_doc) == IsNone(old_doc) \/ IsNone(new_doc)

CouldNotCompare == "Could not compare pages due to fetch error."

\* one card of the report: the entries, or the message shown when there is none
Card(entries, empty_message) == IF entries # <<>> THEN entries ELSE empty_message

\* html_report (223-278): the values the template is filled with
html_report(changes) ==
    <<Len(changes.added), Card(changes.added, "No new content detected"),
      Len(changes.removed), Card(changes.removed, "No removed content detected"),
      Len(changes.modified), Card(changes.modified, "No modified content detected")>>

(***************************************************************************)
(* The documents the extractor and compare_pages are run on.               *)
(***************************************************************************)
\* p, li: allow-listed; div: neither allow-listed nor stripped; script and
\* noscript: stripped
TagPool ==
    {<<"p">>, <<"l","i">>, <<"d","i","v">>, <<"s","c","r","i","p","t">>,
     <<"n","o","s","c","r","i","p","t">>}

\* the parser takes what is inside a script or a style element as one piece
\* of text
RawTextTags == {<<"s","c","r","i","p","t">>, <<"s","t","y","l","e">>}

\* 18 characters between white space, with letters
GoodText ==
    <<" ","H","e","l","l","o",","," ","w","o","r","l","d"," ","2","0","2","4","!","\n">>

\* exactly 10 characters between white space
TenText == <<" ","E","x","a","c","t","l","y"," ","1","0"," ">>

\* Scenario 4 of the specification: digits and punctuation only
DigitsText == <<"1","2","3","4","5"," ","!","!","!"," ","-","-","-">>

\* 11 characters, digits and an underscore only
UnderscoreText == <<"1","2","3","4","5","_","6","7","8","9","0">>

TextPool == {GoodText, TenText, DigitsText, UnderscoreText}

\* The most nodes in a document
MaxNodes == 3

\* the places a node that follows the nodes of doc can hang from: the top, or
\* an element on the path from the last node up
OpenElements(doc) ==
    {0} \cup {i \in SelfAndAncestors(doc, Len(doc)) : doc[i].kind = "element"}

\* the open places an element can hang from: none inside a script
ElementPlaces(doc) ==
    {i \in OpenElements(doc) :
        \A a \in SelfAndAncestors(doc, i) : doc[a].name \notin RawTextTags}

\* the open places a piece of text can hang from: the parser joins the
\* pieces of text that follow each other, so none where the last node is a
\* piece of text at that place
TextPlaces(doc) ==
    {i \in OpenElements(doc) :
        ~(doc # <<>> /\ doc[Len(doc)].kind = "text" /\ doc[Len(doc)].parent = i)}

NodesAfter(doc) ==
    {Element(name, parent) : name \in TagPool, parent \in ElementPlaces(doc)}
    \cup {TextNode(text, parent) : text \in TextPool, parent \in TextPlaces(doc)}

RECURSIVE DocumentsOfLen(_)
DocumentsOfLen(n) ==
    IF n = 0 THEN {<<>>}
    ELSE UNION {{Append(doc, node) : node \in NodesAfter(doc)} :
                   doc \in DocumentsOfLen(n - 1)}

Trees == UNION {DocumentsOfLen(n) : n \in 0..MaxNodes}

Documents ==
    {NoneDocument}
    \cup {Html(nodes) : nodes \in Trees}
    \cup {RejectedHtml(nodes) : nodes \in Trees}

\* a page with one element for each block, its text on a line of its own
RECURSIVE PageOf(_, _)
PageOf(items, doc) ==
    IF items = <<>> THEN doc
    ELSE PageOf(Tail(items),
                doc \o <<Element(Tag(Head(items)), 0),
                         TextNode(<<"\n", " ">> \o Text(Head(items)) \o <<" ", "\n">>,
                                  Len(doc) + 1)>>)

\* '<div><![zz]></div>'
RejectedPage == RejectedHtml(<<Element(<<"d","i","v">>, 0)>>)

PageDocuments ==
    {NoneDocument, RejectedPage}
    \cup {Html(PageOf(items, <<>>)) : items \in ItemLists(ModifyPool)}

(***************************************************************************)
(* find_significant_changes of src/wayback_diff.py (87-133), the pairwise  *)
(* matcher: the texts are compared as they are, every new block with every *)
(* old block.                                                              *)
(***************************************************************************)
\* 'hello world'
Hello == <<<<"p">>, <<"h","e","l","l","o"," ","w","o","r","l","d">>>>

\* 'hello world!': similarity to Hello 22/23 (0.957)
HelloBang == <<<<"p">>, <<"h","e","l","l","o"," ","w","o","r","l","d","!">>>>

\* 'hello words': similarity to Hello 20/22 (0.909)
HelloWords == <<<<"h","1">>, <<"h","e","l","l","o"," ","w","o","r","d","s">>>>

\* '12345': no character in common with the other texts
Digits == <<<<"l","i">>, <<"1","2","3","4","5">>>>

PairPool == {Hello, HelloBang, HelloWords, Digits}

\* the values of similarity_threshold: 0, the default 0.7, and 1
Thresholds == {<<0, 1>>, <<7, 10>>, <<1, 1>>}

PairTexts == {b[2] : b \in PairPool}

\* ratio() on the texts of the pool, tabulated once
RawRatioTable == [p \in PairTexts \X PairTexts |-> ratio(p[1], p[2])] @@ <<>>

\* difflib.SequenceMatcher(None, a, b).ratio() at 106 and 127
RawSimilarity(a, b) ==
    IF <<a, b>> \in DOMAIN RawRatioTable THEN RawRatioTable[<<a, b>>] ELSE ratio(a, b)

\* best_similarity < 0.95
NearlyIdentical == <<19, 20>>

\* best_match = None, best_similarity = 0 (101-102)
NoMatch == <<None, <<0, 1>>>>

\* the test at 108 and the assignments at 109-110; best is
\* <<best_match, best_similarity>>
PairBetter(best, old_item, similarity) ==
    IF FracLess(best[2], similarity) THEN <<old_item, similarity>> ELSE best

\* the loop at 104-110 from the n-th old block on
RECURSIVE PairBestFrom(_, _, _, _)
PairBestFrom(old_list, n, new_item, best) ==
    IF n > Len(old_list) THEN best
    ELSE PairBestFrom(old_list, n + 1, new_item,
                      PairBetter(best, old_list[n],
                                 RawSimilarity(Text(new_item), Text(old_list[n]))))

PairBestMatch(old_list, new_item) == PairBestFrom(old_list, 1, new_item, NoMatch)

\* lines 113-120 for one new block: what is appended, or the TypeError of
\* best_match[0] at 118 when best_match is None
PairOutcome(best, threshold) ==
    IF FracLess(best[2], threshold) THEN "added"
    ELSE IF FracLess(best[2], NearlyIdentical)
         THEN (IF best[1] = None THEN "raises" ELSE "modified")
         ELSE "nothing"

PairOutcomeOf(old_list, new_item, threshold) ==
    PairOutcome(PairBestMatch(old_list, new_item), threshold)

\* the call raises at the first new block whose best_match is None at 118
PairRaises(old_list, new_list, threshold) ==
    \E i \in DOMAIN new_list : PairOutcomeOf(old_list, new_list[i], threshold) = "raises"

\* results['added'] after the loop at 100-120, from the i-th new block on
RECURSIVE PairAddedFrom(_, _, _, _)
PairAddedFrom(old_list, new_list, threshold, i) ==
    IF i > Len(new_list) THEN <<>>
    ELSE (IF PairOutcomeOf(old_list, new_list[i], threshold) = "added"
          THEN <<new_list[i]>> ELSE <<>>)
         \o PairAddedFrom(old_list, new_list, threshold, i + 1)

\* results['modified'] after the loop at 100-120, from the i-th new block on
RECURSIVE PairModifiedFrom(_, _, _, _)
PairModifiedFrom(old_list, new_list, threshold, i) ==
    IF i > Len(new_list) THEN <<>>
    ELSE (IF PairOutcomeOf(old_list, new_list[i], threshold) = "modified"
          THEN <<[old |-> PairBestMatch(old_list, new_list[i])[1], new |-> new_list[i]]>>
          ELSE <<>>)
         \o PairModifiedFrom(old_list, new_list, threshold, i + 1)

\* max(best_similarity, similarity) at 128
FracMax(x, y) == IF FracLess(x, y) THEN y ELSE x

\* the loop at 126-128: best_similarity of one old block, from the n-th new
\* block on
RECURSIVE PairBestSimilarityFrom(_, _, _, _)
PairBestSimilarityFrom(new_list, n, old_item, best_similarity) ==
    IF n > Len(new_list) THEN best_similarity
    ELSE PairBestSimilarityFrom(new_list, n + 1, old_item,
            FracMax(best_similarity,
                    RawSimilarity(Text(old_item), Text(new_list[n]))))

\* results['removed'] after the loop at 123-131, from the j-th old block on
RECURSIVE PairRemovedFrom(_, _, _, _)
PairRemovedFrom(old_list, new_list, threshold, j) ==
    IF j > Len(old_list) THEN <<>>
    ELSE (IF FracLess(PairBestSimilarityFrom(new_list, 1, old_list[j], <<0, 1>>), threshold)
          THEN <<old_list[j]>> ELSE <<>>)
         \o PairRemovedFrom(old_list, new_list, threshold, j + 1)

\* The blocks behind the entries of the report the call returns
PairSources(old_list, new_list, threshold) ==
    [added |-> PairAddedFrom(old_list, new_list, threshold, 1),
     removed |-> PairRemovedFrom(old_list, new_list, threshold, 1),
     modified |-> PairModifiedFrom(old_list, new_list, threshold, 1)]

(***************************************************************************)
(* State                                                                   *)
(***************************************************************************)
VARIABLES
    pc,             \* where the call is
    html_content,   \* extract_meaningful_text: html_content
    content_items,  \* extract_meaningful_text: the list returned
    old_content,    \* compare_pages: old_content
    new_content,    \* compare_pages: new_content
    old_items,      \* find_significant_changes: old_items
    new_items,      \* find_significant_changes: new_items
    sources,        \* the blocks behind the entries of results
    results,        \* find_significant_changes: the dict returned
    returned,       \* compare_pages: the pair returned
    input_text,     \* normalize_text: text, as passed
    normalized_key, \* normalize_text: the string returned
    similarity_threshold, \* wayback_diff.find_significant_changes
    request,        \* the handler that runs and what it is called with
    wayback_url,    \* handler: wayback_url
    wayback_content, \* handler: wayback_content
    current_content, \* handler: current_content
    response,       \* handler: what it returns
    calls           \* the calls the handler has made, in order

vars ==
    <<pc, html_content, content_items, old_content, new_content,
      old_items, new_items, sources, results, returned,
      input_text, normalized_key, similarity_threshold,
      request, wayback_url, wayback_content, current_content, response, calls>>

\* what a handler returns before it has returned
NoResponse == [kind |-> "none", message |-> "", status |-> 0, content |-> None]

\* the variables of the request handlers
handler_vars ==
    <<request, wayback_url, wayback_content, current_content, response, calls>>

\* no handler runs
NoHandler ==
    /\ request = None
    /\ wayback_url = None
    /\ wayback_content = NoneDocument
    /\ current_content = NoneDocument
    /\ response = NoResponse
    /\ calls = <<>>

\* the variables of normalize_text and of the pairwise matcher's threshold
others == <<input_text, normalized_key, similarity_threshold>>

NoOthers ==
    /\ input_text = None
    /\ normalized_key = None
    /\ similarity_threshold = None

\* A call find_significant_changes(old_items, new_items) about to run
MatchInit ==
    /\ pc = "find_significant_changes"
    /\ \E pool \in MatchPools :
          /\ old_items \in ItemLists(pool)
          /\ new_items \in ItemLists(pool)
    /\ sources = None
    /\ results = None
    /\ html_content = NoneDocument
    /\ content_items = None
    /\ old_content = NoneDocument
    /\ new_content = NoneDocument
    /\ returned = None
    /\ NoOthers
    /\ NoHandler

\* find_significant_changes (src/app.py 104-208), whole
FindSignificantChanges ==
    /\ pc = "find_significant_changes"
    /\ IF MatchRaises(old_items, new_items)
       THEN /\ pc' = "raised"
            /\ UNCHANGED <<sources, results>>
       ELSE \E src \in MatchSources(old_items, new_items) :
               /\ sources' = src
               /\ results' = Render(src)
               /\ pc' = "returned"
    /\ UNCHANGED <<old_items, new_items>>
    /\ UNCHANGED <<html_content, content_items, old_content, new_content, returned>>
    /\ UNCHANGED others
    /\ UNCHANGED handler_vars

MatchNext == FindSignificantChanges

MatchSpec == MatchInit /\ [][MatchNext]_vars

\* A call extract_meaningful_text(html_content) about to run
ExtractInit ==
    /\ pc = "extract_meaningful_text"
    /\ html_content \in Documents
    /\ content_items = None
    /\ old_content = NoneDocument
    /\ new_content = NoneDocument
    /\ old_items = None
    /\ new_items = None
    /\ sources = None
    /\ results = None
    /\ returned = None
    /\ NoOthers
    /\ NoHandler

\* extract_meaningful_text (src/app.py 57-84), whole
ExtractMeaningfulText ==
    /\ pc = "extract_meaningful_text"
    /\ IF ParserRejects(html_content)
       THEN /\ pc' = "raised"
            /\ UNCHANGED content_items
       ELSE /\ content_items' = extract_meaningful_text(html_content)
            /\ pc' = "returned"
    /\ UNCHANGED <<html_content, old_content, new_content, old_items, new_items,
                   sources, results, returned>>
    /\ UNCHANGED others
    /\ UNCHANGED handler_vars

ExtractNext == ExtractMeaningfulText

ExtractSpec == ExtractInit /\ [][ExtractNext]_vars

\* A call compare_pages(old_content, new_content) about to run
PageInit ==
    /\ pc = "compare_pages"
    /\ old_content \in PageDocuments
    /\ new_content \in PageDocuments
    /\ old_items = None
    /\ new_items = None
    /\ sources = None
    /\ results = None
    /\ returned = None
    /\ html_content = NoneDocument
    /\ content_items = None
    /\ NoOthers
    /\ NoHandler

\* lines 219-280 on the two lists extracted
CompareItems(old_list, new_list) ==
    /\ old_items' = old_list
    /\ new_items' = new_list
    /\ IF MatchRaises(old_list, new_list)
       THEN /\ pc' = "raised"
            /\ UNCHANGED <<sources, results, returned>>
       ELSE \E src \in MatchSources(old_list, new_list) :
               /\ sources' = src
               /\ results' = Render(src)
               /\ returned' = <<Render(src), html_report(Render(src))>>
               /\ pc' = "returned"

\* compare_pages (src/app.py 210-280), whole
ComparePages ==
    /\ pc = "compare_pages"
    /\ IF FetchFailed(old_content, new_content)
       THEN /\ returned' = <<None, CouldNotCompare>>
            /\ pc' = "returned"
            /\ UNCHANGED <<old_items, new_items, sources, results>>
       ELSE IF ParserRejects(old_content)
       THEN /\ pc' = "raised"
            /\ UNCHANGED <<old_items, new_items, sources, results, returned>>
       ELSE IF ParserRejects(new_content)
       THEN /\ pc' = "raised"
            /\ old_items' = extract_meaningful_text(old_content)
            /\ UNCHANGED <<new_items, sources, results, returned>>
       ELSE CompareItems(extract_meaningful_text(old_content),
                         extract_meaningful_text(new_content))
    /\ UNCHANGED <<old_content, new_content, html_content, content_items>>
    /\ UNCHANGED others
    /\ UNCHANGED handler_vars

PageNext == ComparePages

PageSpec == PageInit /\ [][PageNext]_vars

(***************************************************************************)
(* The texts normalize_text is run on.                                     *)
(***************************************************************************)
\* a lowercase and an uppercase form of one letter, another letter, a digit,
\* the underscore, a space, a full stop, an uppercase letter with no
\* lowercase form
CharPool == {"a", "A", "b", "1", "_", " ", ".", "ϒ"}

\* The most characters in a text passed to normalize_text
MaxTextLen == 3

Texts == UNION {[1..n -> CharPool] : n \in 0..MaxTextLen}

\* A call normalize_text(text) about to run
NormalizeInit ==
    /\ pc = "normalize_text"
    /\ input_text \in {None} \cup Texts
    /\ normalized_key = None
    /\ similarity_threshold = None
    /\ html_content = NoneDocument
    /\ content_items = None
    /\ old_content = NoneDocument
    /\ new_content = NoneDocument
    /\ old_items = None
    /\ new_items = None
    /\ sources = None
    /\ results = None
    /\ returned = None
    /\ NoHandler

\* normalize_text (src/app.py 86-102), whole
NormalizeText ==
    /\ pc = "normalize_text"
    /\ normalized_key' = normalize_text(input_text)
    /\ pc' = "returned"
    /\ UNCHANGED <<input_text, similarity_threshold>>
    /\ UNCHANGED <<html_content, content_items, old_content, new_content,
                   old_items, new_items, sources, results, returned>>
    /\ UNCHANGED handler_vars

NormalizeNext == NormalizeText

NormalizeSpec == NormalizeInit /\ [][NormalizeNext]_vars

\* A call find_significant_changes(old_items, new_items, similarity_threshold)
\* of wayback_diff.py about to run
PairInit ==
    /\ pc = "wayback_diff.find_significant_changes"
    /\ old_items \in ItemLists(PairPool)
    /\ new_items \in ItemLists(PairPool)
    /\ similarity_threshold \in Thresholds
    /\ sources = None
    /\ results = None
    /\ input_text = None
    /\ normalized_key = None
    /\ html_content = NoneDocument
    /\ content_items = None
    /\ old_content = NoneDocument
    /\ new_content = NoneDocument
    /\ returned = None
    /\ NoHandler

\* find_significant_changes (src/wayback_diff.py 87-133), whole
PairFindSignificantChanges ==
    /\ pc = "wayback_diff.find_significant_changes"
    /\ IF PairRaises(old_items, new_items, similarity_threshold)
       THEN /\ pc' = "raised"
            /\ UNCHANGED <<sources, results>>
       ELSE /\ sources' = PairSources(old_items, new_items, similarity_threshold)
            /\ results' = Render(PairSources(old_items, new_items, similarity_threshold))
            /\ pc' = "returned"
    /\ UNCHANGED <<old_items, new_items, similarity_threshold>>
    /\ UNCHANGED <<input_text, normalized_key>>
    /\ UNCHANGED <<html_content, content_items, old_content, new_content, returned>>
    /\ UNCHANGED handler_vars

PairNext == PairFindSignificantChanges

PairSpec == PairInit /\ [][PairNext]_vars

(***************************************************************************)
(* The request handlers main, compare and api_compare (src/app.py 293-315, *)
(* 396-425, 476-505).  A handler validates what it is called with, asks    *)
(* get_wayback_url for the snapshot, fetches the snapshot and the live     *)
(* page with fetch_page_content, and passes both to compare_pages.         *)
(***************************************************************************)
Handlers == {"main", "compare", "api_compare"}

\* what a handler is called with: whether a url is given (for api_compare:
\* whether the body is not empty and "url" is in it), whether a timestamp is
\* given (main, api_compare), the form's date (compare), and whether an
\* output file is named (main)
Requests ==
    {[handler |-> "main", url |-> "given", timestamp |-> t, date |-> "absent",
      output_file |-> o] : t \in BOOLEAN, o \in BOOLEAN}
    \cup {[handler |-> "compare", url |-> u, timestamp |-> FALSE, date |-> d,
           output_file |-> FALSE] :
             u \in {"given", "absent"}, d \in {"absent", "valid", "invalid"}}
    \cup {[handler |-> "api_compare", url |-> u, timestamp |-> t,
           date |-> "absent", output_file |-> FALSE] :
             u \in {"given", "absent"}, t \in BOOLEAN}

\* the messages of the handlers
InvalidDate == "Invalid date format"
UrlRequired == "URL is required"
NoSnapshot == "No Wayback Machine snapshot found for this URL."
ArchiveFetchFailed == "Could not fetch Wayback Machine content."
LiveFetchFailed == "Could not fetch current live content."
ResultsSaved == "Results saved to output_file"

\* an error a handler returns: a string (main, compare) or a JSON error with
\* a status (api_compare)
ErrorResponse(req, message, status) ==
    [kind |-> "error", message |-> message,
     status |-> IF req.handler = "api_compare" THEN status ELSE 0,
     content |-> None]

\* the timestamp the handler passes to get_wayback_url is not None
HasTimestamp(req) ==
    IF req.handler = "compare" THEN req.date = "valid" ELSE req.timestamp

\* get_wayback_url (src/app.py 14-39): the URL of a snapshot
SnapshotUrl == <<"https://web.archive.org/web/20240101/http://example.com">>
EmptyUrl == <<>>

\* what get_wayback_url returns: with a timestamp the URL it builds, without
\* one what the availability API names (a URL, an empty one, or nothing)
LocatorResults(req) ==
    IF HasTimestamp(req) THEN {SnapshotUrl} ELSE {SnapshotUrl, EmptyUrl, None}

\* get_wayback_url returns only when it is given a url; it raises without
\* one (urlparse, line 20), on a url that urlparse rejects (line 20), on a
\* url that is no string (line 22), and whenever the availability request
\* or its decoding fails (lines 26-35)
LocatorMayReturn(req) == req.url = "given"

\* "if not wayback_url"
NoUrl(url) == url = None \/ url = EmptyUrl

\* fetch_page_content (src/app.py 41-56): the text of the page, an empty
\* text and a text the parser rejects included, or None when the request
\* fails
FetchResults ==
    {NoneDocument, Html(<<>>), Html(PageOf(<<LongOld>>, <<>>)),
     Html(PageOf(<<LongNew>>, <<>>)), RejectedPage}

\* print raises (the output is closed, or cannot encode what is printed): in
\* main at line 302
PrintMayRaise(req) == req.handler = "main"

\* what the handler returns once compare_pages has returned: main the page
\* or where it was saved, compare the page, api_compare the changes
ReportResponse(req, compared) ==
    IF req.handler = "api_compare"
    THEN [kind |-> "changes", message |-> "", status |-> 200,
          content |-> compared[1]]
    ELSE IF req.handler = "main" /\ req.output_file
    THEN [kind |-> "saved", message |-> ResultsSaved, status |-> 0,
          content |-> None]
    ELSE [kind |-> "report", message |-> "", status |-> 0,
          content |-> compared[2]]

\* save_to_file (src/app.py 282-291) raises: with an output file named,
\* whenever the file cannot be opened or written (lines 287-288)
SaveMayRaise(req) == req.handler = "main" /\ req.output_file

\* A handler about to run
HandlerInit ==
    /\ pc = "handler"
    /\ request \in Requests
    /\ wayback_url = None
    /\ wayback_content = NoneDocument
    /\ current_content = NoneDocument
    /\ response = NoResponse
    /\ calls = <<>>
    /\ old_items = None
    /\ new_items = None
    /\ sources = None
    /\ results = None
    /\ returned = None
    /\ html_content = NoneDocument
    /\ content_items = None
    /\ old_content = NoneDocument
    /\ new_content = NoneDocument
    /\ NoOthers

\* the variables of compare_pages and of the matcher
compared_vars ==
    <<old_items, new_items, sources, results, returned, html_content,
      content_items, old_content, new_content>>

\* the handler up to its call of get_wayback_url: compare parses the date
\* (lines 401-408); api_compare requires a url (lines 483-484) and reads it
\* and the timestamp (lines 486-487).  api_compare raises on a body that is
\* no object: at line 483 when the test "in" cannot be made on it (a
\* number, true), at lines 486-487 when "url" is in it (a list, a string)
Validate ==
    /\ pc = "handler"
    /\ \/ /\ request.handler = "api_compare"
          /\ pc' = "raised"
          /\ UNCHANGED response
       \/ IF request.handler = "compare" /\ request.date = "invalid"
          THEN /\ response' = ErrorResponse(request, InvalidDate, 0)
               /\ pc' = "returned"
          ELSE IF request.handler = "api_compare" /\ request.url = "absent"
          THEN /\ response' = ErrorResponse(request, UrlRequired, 400)
               /\ pc' = "returned"
          ELSE /\ pc' = "get_wayback_url"
               /\ UNCHANGED response
    /\ UNCHANGED <<request, wayback_url, wayback_content, current_content, calls>>
    /\ UNCHANGED compared_vars
    /\ UNCHANGED others

\* wayback_url = get_wayback_url(url, timestamp) and the test
\* "if not wayback_url" that follows it
GetWaybackUrl ==
    /\ pc = "get_wayback_url"
    /\ calls' = Append(calls, "get_wayback_url")
    /\ \/ /\ pc' = "raised"
          /\ UNCHANGED <<wayback_url, response>>
       \/ /\ LocatorMayReturn(request)
          /\ \E u \in LocatorResults(request) :
                /\ wayback_url' = u
                /\ IF NoUrl(u)
                   THEN /\ response' = ErrorResponse(request, NoSnapshot, 404)
                        /\ pc' = "returned"
                   ELSE /\ \/ pc' = "fetch_page_content(wayback_url)"
                           \/ PrintMayRaise(request) /\ pc' = "raised"
                        /\ UNCHANGED response
    /\ UNCHANGED <<request, wayback_content, current_content>>
    /\ UNCHANGED compared_vars
    /\ UNCHANGED others

\* wayback_content = fetch_page_content(wayback_url); the call raises when
\* the request fails and the print at line 54 raises
FetchWayback ==
    /\ pc = "fetch_page_content(wayback_url)"
    /\ calls' = Append(calls, "fetch_page_content(wayback_url)")
    /\ \/ /\ \E content \in FetchResults : wayback_content' = content
          /\ pc' = "fetch_page_content(url)"
       \/ /\ pc' = "raised"
          /\ UNCHANGED wayback_content
    /\ UNCHANGED <<request, wayback_url, current_content, response>>
    /\ UNCHANGED compared_vars
    /\ UNCHANGED others

\* the two tests in the other order: the live page's first
AfterFetchesLiveFirst(archived, live) ==
    IF IsNone(live)
    THEN /\ response' = ErrorResponse(request, LiveFetchFailed, 500)
         /\ pc' = "returned"
    ELSE IF IsNone(archived)
    THEN /\ response' = ErrorResponse(request, ArchiveFetchFailed, 500)
         /\ pc' = "returned"
    ELSE /\ pc' = "compare_pages(wayback_content, current_content)"
         /\ UNCHANGED response

\* what follows the second fetch: the two tests "is None", the archive's
\* first
AfterFetches(archived, live) ==
    IF IsNone(archived)
    THEN /\ response' = ErrorResponse(request, ArchiveFetchFailed, 500)
         /\ pc' = "returned"
    ELSE IF IsNone(live)
    THEN /\ response' = ErrorResponse(request, LiveFetchFailed, 500)
         /\ pc' = "returned"
    ELSE /\ pc' = "compare_pages(wayback_content, current_content)"
         /\ UNCHANGED response

\* current_content = fetch_page_content(url) and the two tests that follow;
\* the call raises when the request fails and the print at line 54 raises
FetchCurrent ==
    /\ pc = "fetch_page_content(url)"
    /\ calls' = Append(calls, "fetch_page_content(url)")
    /\ \/ \E content \in FetchResults :
             /\ current_content' = content
             /\ AfterFetches(wayback_content, content)
       \/ /\ pc' = "raised"
          /\ UNCHANGED <<current_content, response>>
    /\ UNCHANGED <<request, wayback_url, wayback_content>>
    /\ UNCHANGED compared_vars
    /\ UNCHANGED others

\* compare_pages(wayback_content, current_content) (src/app.py 210-280)
CallComparePages ==
    /\ pc = "compare_pages(wayback_content, current_content)"
    /\ calls' = Append(calls, "compare_pages")
    /\ old_content' = wayback_content
    /\ new_content' = current_content
    /\ IF FetchFailed(wayback_content, current_content)
       THEN /\ returned' = <<None, CouldNotCompare>>
            /\ pc' = "return"
            /\ UNCHANGED <<old_items, new_items, sources, results>>
       ELSE IF ParserRejects(wayback_content)
       THEN /\ pc' = "raised"
            /\ UNCHANGED <<old_items, new_items, sources, results, returned>>
       ELSE IF ParserRejects(current_content)
       THEN /\ pc' = "raised"
            /\ old_items' = extract_meaningful_text(wayback_content)
            /\ UNCHANGED <<new_items, sources, results, returned>>
       ELSE /\ old_items' = extract_meaningful_text(wayback_content)
            /\ new_items' = extract_meaningful_text(current_content)
            /\ IF MatchRaises(extract_meaningful_text(wayback_content),
                              extract_meaningful_text(current_content))
               THEN /\ pc' = "raised"
                    /\ UNCHANGED <<sources, results, returned>>
               ELSE \E src \in MatchSources(extract_meaningful_text(wayback_content),
                                            extract_meaningful_text(current_content)) :
                       /\ sources' = src
                       /\ results' = Render(src)
                       /\ returned' = <<Render(src), html_report(Render(src))>>
                       /\ pc' = "return"
    /\ UNCHANGED <<request, wayback_url, wayback_content, current_content, response>>
    /\ UNCHANGED <<html_content, content_items>>
    /\ UNCHANGED others

\* the handler past compare_pages: main builds the page and returns
\* save_to_file(full_html, output_file) (lines 317-338), compare returns the
\* page (lines 427-470), api_compare the changes (lines 507-511)
ReturnReport ==
    /\ pc = "return"
    /\ \/ /\ SaveMayRaise(request)
          /\ pc' = "raised"
          /\ UNCHANGED response
       \/ /\ response' = ReportResponse(request, returned)
          /\ pc' = "returned"
    /\ UNCHANGED <<request, wayback_url, wayback_content, current_content, calls>>
    /\ UNCHANGED compared_vars
    /\ UNCHANGED others

HandlerNext ==
    \/ Validate
    \/ GetWaybackUrl
    \/ FetchWayback
    \/ FetchCurrent
    \/ CallComparePages
    \/ ReturnReport

HandlerSpec == HandlerInit /\ [][HandlerNext]_vars

(***************************************************************************)
(* Properties of find_significant_changes.  sources holds, entry by entry, *)
(* the blocks whose excerpts results holds.                                *)
(***************************************************************************)
\* the normalized key of a block
KeyOf(item) == Normalized(Text(item))

\* how many times x occurs in the list seq
CountIn(seq, x) == Cardinality({i \in DOMAIN seq : seq[i] = x})

Returned == pc = "returned"

\* C1: matching a block sequence against itself returns empty added, removed
\* and modified lists
C1_Idempotence ==
    (Returned /\ old_items = new_items) =>
        /\ results.added = <<>>
        /\ results.removed = <<>>
        /\ results.modified = <<>>

C1_Witness ==
    /\ Returned
    /\ old_items = <<LongOld, Scenario1>>
    /\ new_items = <<LongOld, Scenario1>>

\* C2: an old block o and a new block n with equal normalized keys: n gives
\* no added entry, o gives no removed entry, no modified entry pairs o with n
C2_EqualKeysUnchanged ==
    Returned =>
        \A i \in DOMAIN old_items, j \in DOMAIN new_items :
            KeyOf(old_items[i]) = KeyOf(new_items[j]) =>
                /\ CountIn(sources.added, new_items[j]) = 0
                /\ CountIn(sources.removed, old_items[i]) = 0
                /\ CountIn(sources.modified,
                           [old |-> old_items[i], new |-> new_items[j]]) = 0

\* Scenario 5: equal keys under another casing, punctuation, spacing and tag
C2_Witness ==
    /\ Returned
    /\ old_items = <<Scenario1>>
    /\ new_items = <<Scenario5>>
    /\ Text(Scenario1) # Text(Scenario5)
    /\ results = [added |-> <<>>, removed |-> <<>>, modified |-> <<>>]

\* C3: a block whose normalized key is shorter than 30 is behind no entry of
\* added, of removed, or of either side of modified
C3_BoilerplateFilter ==
    Returned =>
        /\ \A i \in DOMAIN sources.added : Len(KeyOf(sources.added[i])) >= 30
        /\ \A i \in DOMAIN sources.removed : Len(KeyOf(sources.removed[i])) >= 30
        /\ \A i \in DOMAIN sources.modified :
              /\ Len(KeyOf(sources.modified[i].old)) >= 30
              /\ Len(KeyOf(sources.modified[i].new)) >= 30

\* two short blocks that are similar, differ in 9 words and in 59 characters
C3_Witness ==
    /\ Returned
    /\ old_items = <<ShortOld>>
    /\ new_items = <<ShortNew>>
    /\ Len(KeyOf(ShortOld)) < 30
    /\ Len(KeyOf(ShortNew)) < 30

\* C4: added holds one entry for each new block whose key is longer than 50
\* and is the key of no old block, and nothing else
C4_AddedExactly ==
    Returned =>
        /\ \A b \in Range(new_items) \cup Range(sources.added) :
              CountIn(sources.added, b) =
                 IF /\ Len(KeyOf(b)) > 50
                    /\ \A i \in DOMAIN old_items : KeyOf(old_items[i]) # KeyOf(b)
                 THEN CountIn(new_items, b)
                 ELSE 0
        /\ Len(results.added) = Len(sources.added)

\* two new blocks that share a key are both added; a key of length 36 is not
C4_Witness ==
    /\ Returned
    /\ old_items = <<LongOld>>
    /\ new_items = <<Scenario1, Scenario5>>
    /\ KeyOf(Scenario1) = KeyOf(Scenario5)
    /\ Len(results.added) = 2

\* C5: the removed list of match(A, B) is the added list of match(B, A)
C5_RemovedMirrorsAdded ==
    Returned =>
        \A mirror \in MatchSources(new_items, old_items) :
            results.removed = Render(mirror).added

C5_Witness ==
    /\ Returned
    /\ old_items = <<Scenario2, MidItem>>
    /\ new_items = <<Scenario3New>>
    /\ Len(results.removed) = 1
    /\ Len(results.added) = 1

Scenario3 ==
    /\ Returned
    /\ old_items = <<Scenario3Old>>
    /\ new_items = <<Scenario3New>>

\* C6 as the specification states it: on Scenario 3 the report has exactly 1
\* modified entry, 0 added entries and 0 removed entries
C6_Scenario3AsStated ==
    Scenario3 =>
        /\ Len(results.modified) = 1
        /\ Len(results.added) = 0
        /\ Len(results.removed) = 0

\* C6: on Scenario 3 the report has no modified entry (the two texts differ in
\* 6 words but in 13 characters of length only), the new paragraph as its one
\* added entry and the old paragraph as its one removed entry
C6_Scenario3 ==
    Scenario3 =>
        /\ results.modified = <<>>
        /\ sources.added = <<Scenario3New>>
        /\ sources.removed = <<Scenario3Old>>
        /\ Len(results.added) = 1
        /\ Len(results.removed) = 1

C6_Witness ==
    /\ Scenario3
    /\ FracLess(<<3, 4>>, Similarity(KeyOf(Scenario3New), KeyOf(Scenario3Old)))
    /\ FracLess(Similarity(KeyOf(Scenario3New), KeyOf(Scenario3Old)), <<9, 10>>)
    /\ Len(Text(Scenario3New)) - Len(Text(Scenario3Old)) = 13

\* what an excerpt shows of a text: the text when it has at most 150
\* characters, else its first 150 characters and three dots
Shown(text) ==
    IF Len(text) <= 150 THEN text
    ELSE [k \in 1..153 |-> IF k <= 150 THEN text[k] ELSE "."]

\* e names the kind of the block b and shows the original text of b
ExcerptOf(e, b) ==
    /\ Len(e) = Len(StrongOpen) + Len(Tag(b)) + Len(StrongClose) + Len(Shown(Text(b)))
    /\ SubSeq(e, 1, Len(StrongOpen)) = StrongOpen
    /\ \A k \in DOMAIN Tag(b) :
          e[Len(StrongOpen) + k] = UpperChar(Tag(b)[k])
    /\ SubSeq(e, Len(StrongOpen) + Len(Tag(b)) + 1,
              Len(StrongOpen) + Len(Tag(b)) + Len(StrongClose)) = StrongClose
    /\ SubSeq(e, Len(StrongOpen) + Len(Tag(b)) + Len(StrongClose) + 1, Len(e)) =
          Shown(Text(b))

\* C7: every excerpt of added, removed and both sides of modified carries the
\* kind of its block and the block's original text: whole when it has at most
\* 150 characters, else its first 150 characters followed by "..."
C7_Excerpts ==
    Returned =>
        /\ DOMAIN results.added = DOMAIN sources.added
        /\ DOMAIN results.removed = DOMAIN sources.removed
        /\ DOMAIN results.modified = DOMAIN sources.modified
        /\ \A i \in DOMAIN results.added :
              ExcerptOf(results.added[i], sources.added[i])
        /\ \A i \in DOMAIN results.removed :
              ExcerptOf(results.removed[i], sources.removed[i])
        /\ \A i \in DOMAIN results.modified :
              /\ ExcerptOf(results.modified[i].old, sources.modified[i].old)
              /\ ExcerptOf(results.modified[i].new, sources.modified[i].new)

\* a modified entry whose old side is cut at 150 characters and whose new
\* side is whole
C7_Witness ==
    /\ Returned
    /\ old_items = <<LongOld>>
    /\ new_items = <<LongNew>>
    /\ Len(Text(LongOld)) > 150
    /\ Len(results.modified) = 1
    /\ Len(results.modified[1].old) > Len(results.modified[1].new)

\* C8: the call never raises; with no old block, removed and modified are
\* empty and added holds every new block whose key is longer than 50; with no
\* new block, added and modified are empty and removed holds every old block
\* whose key is longer than 50
C8_EmptySide ==
    /\ pc # "raised"
    /\ (Returned /\ old_items = <<>>) =>
          /\ results.removed = <<>>
          /\ results.modified = <<>>
          /\ \A b \in Range(new_items) \cup Range(sources.added) :
                CountIn(sources.added, b) =
                   IF Len(KeyOf(b)) > 50 THEN CountIn(new_items, b) ELSE 0
    /\ (Returned /\ new_items = <<>>) =>
          /\ results.added = <<>>
          /\ results.modified = <<>>
          /\ \A b \in Range(old_items) \cup Range(sources.removed) :
                CountIn(sources.removed, b) =
                   IF Len(KeyOf(b)) > 50 THEN CountIn(old_items, b) ELSE 0

C8_Witness ==
    /\ Returned
    /\ old_items = <<>>
    /\ new_items = <<Scenario1, MidItem>>
    /\ sources.added = <<Scenario1>>

\* C14: the old side of every modified entry is a block whose key is the key
\* of no new block, and the new side a block whose key is the key of no old
\* block
C14_UniqueKeys ==
    Returned =>
        \A i \in DOMAIN sources.modified :
            /\ \A j \in DOMAIN new_items :
                  KeyOf(new_items[j]) # KeyOf(sources.modified[i].old)
            /\ \A j \in DOMAIN old_items :
                  KeyOf(old_items[j]) # KeyOf(sources.modified[i].new)

\* the similarity of the keys of the two sides of a modified entry
KeySimilarity(entry) == Similarity(KeyOf(entry.new), KeyOf(entry.old))

\* min(len) / max(len) of two keys is at least 0.75
LengthsWithinQuarter(new_norm, old_norm) ==
    4 * Min({Len(new_norm), Len(old_norm)}) >= 3 * Max({Len(new_norm), Len(old_norm)})

\* C15: for every modified entry, min(len) / max(len) of the two keys is at
\* least 0.75 and the similarity of the two keys is strictly between 0.75 and
\* 0.9: a pair with similarity 0.75, 0.9 or more is never emitted
C15_AcceptedRange ==
    Returned =>
        \A i \in DOMAIN sources.modified :
            /\ LengthsWithinQuarter(KeyOf(sources.modified[i].new),
                                    KeyOf(sources.modified[i].old))
            /\ FracLess(<<3, 4>>, KeySimilarity(sources.modified[i]))
            /\ FracLess(KeySimilarity(sources.modified[i]), <<9, 10>>)

\* an old key at similarity exactly 0.75 is passed over, one at 0.825 is paired
C15_Witness ==
    /\ Returned
    /\ old_items = <<Sim75, Sim82>>
    /\ new_items = <<Base>>
    /\ Similarity(KeyOf(Base), KeyOf(Sim75)) = <<60, 80>>
    /\ Similarity(KeyOf(Base), KeyOf(Sim82)) = <<66, 80>>
    /\ sources.modified = <<[old |-> Sim82, new |-> Base]>>

\* the similarity of two keys is strictly between 0.75 and 0.9
InsideRange(new_norm, old_norm) ==
    /\ FracLess(<<3, 4>>, Similarity(new_norm, old_norm))
    /\ FracLess(Similarity(new_norm, old_norm), <<9, 10>>)

\* the old keys a new key is compared with: the keys, of 30 characters or
\* more, of the old blocks, that pass the pre-filter on the lengths
Candidates(new_norm) ==
    {KeyOf(old_items[j]) : j \in {j \in DOMAIN old_items :
        /\ Len(KeyOf(old_items[j])) >= 30
        /\ LengthsWithinQuarter(new_norm, KeyOf(old_items[j]))}}

\* new_norm is the key of no old block
UnmatchedKey(new_norm) ==
    /\ Len(new_norm) >= 30
    /\ \A j \in DOMAIN old_items : KeyOf(old_items[j]) # new_norm

\* the pair of keys is accepted, whatever the order the keys are visited in:
\* old_norm is the one candidate of greatest similarity, inside (0.75, 0.9)
AcceptedPair(new_norm, old_norm) ==
    /\ UnmatchedKey(new_norm)
    /\ old_norm \in Candidates(new_norm)
    /\ InsideRange(new_norm, old_norm)
    /\ \A other \in Candidates(new_norm) \ {old_norm} :
          FracLess(Similarity(new_norm, other), Similarity(new_norm, old_norm))

\* on the original texts: at least 5 words are in one text only, lower-cased,
\* and the lengths differ by more than 50
PassesVerification(new_item, old_item) ==
    /\ word_changes(Text(new_item), Text(old_item)) >= 5
    /\ Abs(Len(Text(new_item)) - Len(Text(old_item))) > 50

\* C16: for an accepted pair of keys, an old block and a new block with these
\* keys give a modified entry if and only if, on their original texts, at
\* least 5 lower-cased words are in one text only and the lengths differ by
\* more than 50; every modified entry passes both tests
C16_Verification ==
    Returned =>
        /\ \A i \in DOMAIN sources.modified :
              PassesVerification(sources.modified[i].new, sources.modified[i].old)
        /\ \A i \in DOMAIN new_items, j \in DOMAIN old_items :
              AcceptedPair(KeyOf(new_items[i]), KeyOf(old_items[j])) =>
                 CountIn(sources.modified,
                         [old |-> old_items[j], new |-> new_items[i]]) =
                    IF PassesVerification(new_items[i], old_items[j])
                    THEN CountIn(new_items, new_items[i]) * CountIn(old_items, old_items[j])
                    ELSE 0

\* two old blocks with one key, accepted for the new key: the block whose text
\* differs by 52 characters is paired, the one that differs by 50 is not
C16_Witness ==
    /\ Returned
    /\ old_items = <<Sim82, SmallDiff>>
    /\ new_items = <<Base>>
    /\ KeyOf(Sim82) = KeyOf(SmallDiff)
    /\ AcceptedPair(KeyOf(Base), KeyOf(SmallDiff))
    /\ sources.modified = <<[old |-> Sim82, new |-> Base]>>

\* old_norm is a candidate for new_norm and no candidate is more similar
MaximalCandidate(new_norm, old_norm) ==
    /\ old_norm \in Candidates(new_norm)
    /\ \A other \in Candidates(new_norm) :
          ~FracLess(Similarity(new_norm, old_norm), Similarity(new_norm, other))

\* some candidate for new_norm has a similarity of 0.9 or more
HasNearCopy(new_norm) ==
    \E other \in Candidates(new_norm) :
        ~FracLess(Similarity(new_norm, other), <<9, 10>>)

\* C17: the modified entries of one new key all have one old key, a candidate
\* of maximal similarity among the old keys that pass the pre-filter on the
\* lengths; a new key with a candidate at similarity 0.9 or more has no
\* modified entry
C17_SingleBestMatch ==
    Returned =>
        /\ \A i \in DOMAIN sources.modified, j \in DOMAIN sources.modified :
              KeyOf(sources.modified[i].new) = KeyOf(sources.modified[j].new)
                 => KeyOf(sources.modified[i].old) = KeyOf(sources.modified[j].old)
        /\ \A i \in DOMAIN sources.modified :
              MaximalCandidate(KeyOf(sources.modified[i].new),
                               KeyOf(sources.modified[i].old))
        /\ \A i \in DOMAIN sources.modified :
              ~HasNearCopy(KeyOf(sources.modified[i].new))

\* the old key at similarity 0.9 is the best match, so the old key at 0.825,
\* which passes every test, is not paired
C17_Witness ==
    /\ Returned
    /\ old_items = <<Sim90, Sim82>>
    /\ new_items = <<Base>>
    /\ HasNearCopy(KeyOf(Base))
    /\ InsideRange(KeyOf(Base), KeyOf(Sim82))
    /\ PassesVerification(Base, Sim82)
    /\ sources.modified = <<>>

\* C21: the categories of the report overlap: the new-side block of a
\* modified entry whose key is longer than 50 is also in added, and the
\* old-side block of a modified entry whose key is longer than 50 and is the
\* key of no new block is also in removed
C21_CategoriesOverlap ==
    Returned =>
        \A i \in DOMAIN sources.modified :
            /\ Len(KeyOf(sources.modified[i].new)) > 50
                  => CountIn(sources.added, sources.modified[i].new) >= 1
            /\ (/\ Len(KeyOf(sources.modified[i].old)) > 50
                /\ \A j \in DOMAIN new_items :
                      KeyOf(new_items[j]) # KeyOf(sources.modified[i].old))
                  => CountIn(sources.removed, sources.modified[i].old) >= 1

\* one modification, reported three times: as modified, added and removed
C21_Witness ==
    /\ Returned
    /\ old_items = <<LongOld>>
    /\ new_items = <<LongNew>>
    /\ sources.modified = <<[old |-> LongOld, new |-> LongNew]>>
    /\ sources.added = <<LongNew>>
    /\ sources.removed = <<LongOld>>

(***************************************************************************)
(* Properties of compare_pages and of extract_meaningful_text.             *)
(***************************************************************************)
\* C9: when the old or the new document is None, compare_pages extracts and
\* matches nothing and returns a null report with a reason string; when both
\* are strings (the empty string included) it returns a report with the
\* three lists added, removed and modified
C9_ComparePages ==
    /\ pc # "raised"
    /\ Returned =>
          IF old_content.is_none \/ new_content.is_none
          THEN /\ old_items = None
               /\ new_items = None
               /\ sources = None
               /\ results = None
               /\ returned = <<None, "Could not compare pages due to fetch error.">>
          ELSE /\ DOMAIN returned[1] = {"added", "removed", "modified"}
               /\ DOMAIN returned[1].added = 1..Len(returned[1].added)
               /\ DOMAIN returned[1].removed = 1..Len(returned[1].removed)
               /\ DOMAIN returned[1].modified = 1..Len(returned[1].modified)

\* C10: every block extract_meaningful_text returns has a trimmed text of more
\* than 10 characters with at least one letter in it
C10_LettersRequired ==
    (pc = "returned") =>
        \A k \in DOMAIN content_items :
            /\ Len(content_items[k][2]) > 10
            /\ ~IsSpace(content_items[k][2][1])
            /\ ~IsSpace(content_items[k][2][Len(content_items[k][2])])
            /\ \E c \in DOMAIN content_items[k][2] : IsLetter(content_items[k][2][c])

\* the element kinds of the allow-list: p, h1..h6, li, th, td, figcaption,
\* blockquote
AllowList ==
    {<<"p">>, <<"h","1">>, <<"h","2">>, <<"h","3">>, <<"h","4">>, <<"h","5">>,
     <<"h","6">>, <<"l","i">>, <<"t","h">>, <<"t","d">>,
     <<"f","i","g","c","a","p","t","i","o","n">>,
     <<"b","l","o","c","k","q","u","o","t","e">>}

\* no element of the document is of an allow-listed kind
NoAllowListedElement(doc) ==
    \A i \in DOMAIN doc : ~(doc[i].kind = "element" /\ doc[i].name \in AllowList)

\* C11: an absent (None) document, an empty document and a document with no
\* allow-listed element each give an empty block sequence, and the call does
\* not raise
C11_NoBlocks ==
    (\/ IsNone(html_content)
     \/ html_content.nodes = <<>>
     \/ NoAllowListedElement(html_content.nodes))
       => /\ pc # "raised"
          /\ Returned => content_items = <<>>

\* the non-content element kinds: script, style, meta, link, svg, path,
\* noscript
NonContent ==
    {<<"s","c","r","i","p","t">>, <<"s","t","y","l","e">>, <<"m","e","t","a">>,
     <<"l","i","n","k">>, <<"s","v","g">>, <<"p","a","t","h">>,
     <<"n","o","s","c","r","i","p","t">>}

\* the nodes that are no non-content element and are inside none
OutsideNonContent(doc) ==
    {i \in DOMAIN doc :
        \A a \in SelfAndAncestors(doc, i) :
            doc[a].kind # "element" \/ doc[a].name \notin NonContent}

\* the block comes from an allow-listed element outside every non-content
\* element, and its text is made of the text below that element that is
\* outside every non-content element
FromContent(doc, block) ==
    \E i \in OutsideNonContent(doc) :
        /\ doc[i].kind = "element"
        /\ doc[i].name = block[1]
        /\ doc[i].name \in AllowList
        /\ block[2] = strip(get_text(doc, OutsideNonContent(doc), i))

\* the blocks of content_items that come from elements named name
BlocksOf(name) == {k \in DOMAIN content_items : content_items[k][1] = name}

\* the elements named name outside every non-content element
ContentElements(doc, name) ==
    {i \in OutsideNonContent(doc) : doc[i].kind = "element" /\ doc[i].name = name}

\* C18: every block returned comes from an element of the allow-list that is
\* outside every non-content element, and its text holds no text located
\* inside a non-content element; an element inside a non-content element, or
\* of a kind outside the allow-list, gives no block
C18_StrippedNeverSurfaces ==
    Returned =>
        /\ \A k \in DOMAIN content_items :
              FromContent(html_content.nodes, content_items[k])
        /\ \A name \in AllowList \cup TagPool :
              Cardinality(BlocksOf(name)) <=
                 Cardinality(ContentElements(html_content.nodes, name))

\* a paragraph inside a noscript, with a text that would pass the filter
C18_Witness ==
    /\ Returned
    /\ html_content = Html(<<Element(<<"n","o","s","c","r","i","p","t">>, 0),
                             Element(<<"p">>, 1), TextNode(GoodText, 2)>>)
    /\ Meaningful(strip(GoodText))
    /\ content_items = <<>>

(***************************************************************************)
(* Properties of normalize_text.                                           *)
(***************************************************************************)
\* the letters and digits of a text, in order, the letters in lowercase: what
\* is left of a text when letter case, punctuation and symbol characters (the
\* underscore is one) and white space are put aside
LettersAndDigits(text) ==
    lower(SelectSeq(text, LAMBDA c : IsLetter(c) \/ IsDigit(c)))

\* C12: two texts that differ only in letter case, in punctuation and symbol
\* characters and in white space have identical normalized keys, and
\* normalize_text(normalize_text(t)) = normalize_text(t) for every text t
C12_SameKeyAndIdempotent ==
    Returned =>
        /\ \A other \in Texts :
              (/\ input_text # None
               /\ LettersAndDigits(other) = LettersAndDigits(input_text))
              => normalize_text(other) = normalized_key
        /\ normalize_text(normalized_key) = normalized_key

\* C13 as the specification states it: the key holds lowercase letters,
\* digits and underscores only, and an empty or absent input gives the empty
\* string
C13_LowercaseOnly ==
    Returned =>
        /\ \A k \in DOMAIN normalized_key :
              normalized_key[k] \in LowerSet \cup DigitSet \cup {"_"}
        /\ (input_text = None \/ input_text = <<>>) => normalized_key = <<>>

\* C13: the key holds word characters only (letters, digits, underscores), no
\* white space, no other punctuation and no uppercase letter that has a
\* lowercase form; an uppercase letter without a lowercase form stays as it
\* is; an empty or absent input gives the empty string
C13_KeyCharacters ==
    Returned =>
        /\ \A k \in DOMAIN normalized_key :
              /\ normalized_key[k] \in
                    LowerSet \cup DigitSet \cup {"_"} \cup UncasedUpperSet
              /\ normalized_key[k] \notin UpperSet
              /\ normalized_key[k] \notin SpaceSet
        /\ (input_text = None \/ input_text = <<>>) => normalized_key = <<>>

C13_Witness ==
    /\ Returned
    /\ input_text = <<"A", ".", "ϒ">>
    /\ normalized_key = <<"a", "ϒ">>

(***************************************************************************)
(* Properties of the pairwise matcher (src/wayback_diff.py).               *)
(***************************************************************************)
\* the best similarity of a new block, 0 when there is no old block, is below
\* the bound
BestBelow(new_item, bound) ==
    /\ FracLess(<<0, 1>>, bound)
    /\ \A j \in DOMAIN old_items :
          FracLess(RawSimilarity(Text(new_item), Text(old_items[j])), bound)

\* old_item is an old block and no old block is more similar to new_item
AttainsBest(new_item, old_item) ==
    /\ old_item \in Range(old_items)
    /\ \A j \in DOMAIN old_items :
          ~FracLess(RawSimilarity(Text(new_item), Text(old_item)),
                    RawSimilarity(Text(new_item), Text(old_items[j])))

\* the modified entries whose new side is the block
ModifiedOf(new_item) ==
    {i \in DOMAIN sources.modified : sources.modified[i].new = new_item}

\* C19: the call gives each new block one outcome, decided by its best
\* similarity s over the old blocks (0 when there is none): an added entry if
\* and only if s < similarity_threshold, a modified entry paired with an old
\* block attaining s if and only if similarity_threshold <= s < 0.95, no
\* entry otherwise
C19_OneOutcome ==
    (pc # "wayback_diff.find_significant_changes") =>
        /\ pc = "returned"
        /\ \A b \in Range(new_items) :
              /\ CountIn(sources.added, b) =
                    IF BestBelow(b, similarity_threshold)
                    THEN CountIn(new_items, b) ELSE 0
              /\ Cardinality(ModifiedOf(b)) =
                    IF /\ ~BestBelow(b, similarity_threshold)
                       /\ BestBelow(b, <<19, 20>>)
                    THEN CountIn(new_items, b) ELSE 0
              /\ \A i \in ModifiedOf(b) : AttainsBest(b, sources.modified[i].old)
        /\ Len(sources.added) + Len(sources.modified) <= Len(new_items)

\* C20: the call never raises, whatever the old list and the threshold in
\* [0, 1]
C20_NeverRaises == pc # "raised"

(***************************************************************************)
(* Properties of the request handlers.  calls holds, in order, the calls   *)
(* the handler has made.                                                   *)
(***************************************************************************)
\* the handler has called name
Called(name) == \E i \in DOMAIN calls : calls[i] = name

\* every call of second comes after a call of first
CalledBefore(first, second) ==
    \A j \in DOMAIN calls :
        calls[j] = second => \E i \in 1..(j - 1) : calls[i] = first

\* the handler has called fetch_page_content
Fetched ==
    Called("fetch_page_content(wayback_url)") \/ Called("fetch_page_content(url)")

\* the handler is past its call of get_wayback_url and that call gave no URL
LocatorGaveNothing ==
    /\ Called("get_wayback_url")
    /\ NoUrl(wayback_url)

\* the handler has tested the result of a fetch: it has returned a fetch
\* error, or it is past both tests
ResultTested ==
    \/ response.message \in {ArchiveFetchFailed, LiveFetchFailed}
    \/ pc = "compare_pages(wayback_content, current_content)"
    \/ Called("compare_pages")

====
